---- MODULE Spec2Model ----
(***************************************************************************)
(* Model of src/server_manager.py: the Tk front end that starts a         *)
(* Minecraft server (start_server), stops it (stop_server) and syncs the   *)
(* world folder with git before start and after stop.                      *)
(*                                                                         *)
(* Text is modelled as a sequence of one-character strings, so that        *)
(* str.isdigit, int() and the f-string tokens are computed, not assumed.   *)
(* The character "sup2" stands for U+00B2 (superscript two): Python says   *)
(* isdigit() of it is True and int() of it raises ValueError.              *)
(***************************************************************************)
EXTENDS Integers, Sequences, FiniteSets, TLC

(* ---------------- bounds of the model ---------------- *)

\* number of child processes the operating system can hand out in one run
MaxProcs == 2
\* longest text typed into the RAM entry
MaxRamLen == 2
\* most "stop\n" commands that may sit unflushed in one Popen's stdin buffer
MaxBuffered == 2

(* ---------------- program constants ---------------- *)

\* time.sleep(15), in seconds
GraceWindow == 15
\* server_process = None
None == 0

NORMAL == "normal"
DISABLED == "disabled"

(* ---------------- text ---------------- *)

\* the characters every text up to MaxRamLen is built from
RamChars == {"0", "1", "sup2"}

RECURSIVE StringsUpTo(_)
StringsUpTo(n) ==
    IF n = 0 THEN {<<>>}
    ELSE LET shorter == StringsUpTo(n - 1)
         IN  shorter \cup {Append(s, c) : s \in {t \in shorter : Len(t) = n - 1}, c \in RamChars}

\* what the operator can type into ram_entry: every text over RamChars, and
\* a letter, a negative number and a number followed by a letter
RamInputs == StringsUpTo(MaxRamLen) \cup { <<"a">>, <<"-", "1">>, <<"1", "a">> }

\* the f-string pieces and the fixed tokens of the default command
Str_java == <<"j", "a", "v", "a">>
Str_Xmx == <<"-", "X", "m", "x">>
Str_Xms == <<"-", "X", "m", "s">>
Str_M == <<"M">>
Str_jar == <<"-", "j", "a", "r">>
Str_server_jar == <<"s", "e", "r", "v", "e", "r", ".", "j", "a", "r">>
Str_nogui == <<"n", "o", "g", "u", "i">>
Str_2048 == <<"2", "0", "4", "8">>
Str_1024 == <<"1", "0", "2", "4">>
Str_run_bat == <<"r", "u", "n", ".", "b", "a", "t">>

\* characters for which str.isdecimal() is True (Unicode category Nd)
DecimalChars == {"0", "1", "2", "3", "4", "5", "6", "7", "8", "9"}
\* characters for which str.isdigit() is True: the decimals and the
\* digit-typed characters such as superscripts
DigitChars == DecimalChars \cup {"sup2"}

DecimalValue(c) ==
    CASE c = "0" -> 0 [] c = "1" -> 1 [] c = "2" -> 2 [] c = "3" -> 3
      [] c = "4" -> 4 [] c = "5" -> 5 [] c = "6" -> 6 [] c = "7" -> 7
      [] c = "8" -> 8 [] c = "9" -> 9

\* str.isdigit(): non-empty and every character a digit character
isdigit(s) == Len(s) > 0 /\ \A i \in 1..Len(s) : s[i] \in DigitChars

RECURSIVE DecimalNumber(_)
DecimalNumber(s) ==
    IF Len(s) = 0 THEN 0
    ELSE 10 * DecimalNumber(SubSeq(s, 1, Len(s) - 1)) + DecimalValue(s[Len(s)])

\* int(s) raises ValueError for a text that passed isdigit() when one of its
\* characters is a digit character that is not a decimal
int_raises(s) == \E i \in 1..Len(s) : s[i] \notin DecimalChars

\* int(s) when it does not raise
int(s) == DecimalNumber(s)

\* the check of line 80 without `or int(ram_value) <= 0`
RamCheckDigitsOnly(ram_value) ==
    IF ~isdigit(ram_value) THEN "invalid"
    ELSE IF int_raises(ram_value) THEN "raises"
    ELSE "valid"

\* line 80: `not ram_value.isdigit() or int(ram_value) <= 0`, with Python's
\* short-circuit; the third outcome is int() raising out of start_server
RamCheck(ram_value) ==
    IF ~isdigit(ram_value) THEN "invalid"
    ELSE IF int_raises(ram_value) THEN "raises"
    ELSE IF int(ram_value) <= 0 THEN "invalid"
    ELSE "valid"

\* the default command built without the -Xms token
DefaultCommandNoXms(ram_value) ==
    << Str_java, Str_Xmx \o ram_value \o Str_M, Str_jar, Str_server_jar, Str_nogui >>

\* line 93: the default command
DefaultCommand(ram_value) ==
    << Str_java, Str_Xmx \o ram_value \o Str_M, Str_Xms \o ram_value \o Str_M,
       Str_jar, Str_server_jar, Str_nogui >>

\* lines 89-93: config.get('start_command'), the default when it is falsy
\* (missing key, None, empty list)
StartCommand(config, ram_value) ==
    IF config.start_command = <<>> THEN DefaultCommand(ram_value)
    ELSE config.start_command

\* the image name Windows gives the spawned process
ImageOf(command) == IF command[1] = Str_java THEN "java.exe" ELSE "other"

(* ---------------- the settings file ---------------- *)

\* a key the JSON document does not hold
Absent == <<"absent">>
\* no server_config.json on disk
Missing == [exists |-> FALSE, ram |-> Absent, start_command |-> <<>>, server_path |-> "unset"]

CustomScript == << Str_run_bat >>

\* the server_config.json the program may find when it is launched
InitialFiles ==
    { Missing,
      [exists |-> TRUE, ram |-> Absent, start_command |-> <<>>, server_path |-> "set"],
      [exists |-> TRUE, ram |-> <<"1">>, start_command |-> CustomScript, server_path |-> "unset"] }

\* lines 12-27: create the file with ram '2048' when missing, ask for the
\* server path when unset (ask_for_path repeats until one is chosen), save
load_config(file) ==
    LET config == IF ~file.exists
                  THEN [exists |-> TRUE, ram |-> Str_2048, start_command |-> <<>>,
                        server_path |-> "unset"]
                  ELSE file
    IN  IF config.server_path = "unset" THEN [config EXCEPT !.server_path = "set"]
        ELSE config

\* lines 138-141: the entry shows config.get('ram', '1024')
configure_ram(config) == IF config.ram = Absent THEN Str_1024 ELSE config.ram

(* ---------------- state ---------------- *)

VARIABLES
    pc,             \* where the Tk main thread is: "mainloop" or a line inside a handler
    handler,        \* the handler that runs or ran last: "none", "start", "stop"
    server_process, \* the global server_process: None or the pid of the Popen object
    start_button,   \* state of start_button
    stop_button,    \* state of stop_button
    ram_entry,      \* text in the RAM entry
    config_file,    \* content of server_config.json
    popen_args,     \* the command given to the last subprocess.Popen call
    proc,           \* pid -> "unborn", "alive", "dead"
    cause,          \* pid -> why the process ended
    image,          \* pid -> image name of the process
    stdin_buf,      \* "stop\n" commands in the BufferedWriter of server_process.stdin
    stdin_pipe,     \* "stop\n" commands written to the pipe the tracked child reads
    foreign_java,   \* a java.exe this program did not launch: "alive", "killed"
    elapsed,        \* seconds of time.sleep(15) that have passed
    ops,            \* external operations of the running (or last) handler, in order
    msgs,           \* message boxes of the running (or last) handler, in order
    ref_at_begin,   \* server_process when the running (or last) handler began
    last_sync       \* the sync hook that ran last: "none", "pull", "push"

vars == << pc, handler, server_process, start_button, stop_button, ram_entry,
           config_file, popen_args, proc, cause, image, stdin_buf, stdin_pipe,
           foreign_java, elapsed, ops, msgs, ref_at_begin, last_sync >>

Pids == 1..MaxProcs

gui == << start_button, stop_button, ram_entry >>
os == << proc, cause, image, stdin_buf, stdin_pipe, foreign_java >>

\* main(), lines 144-169: the config is loaded, the entry filled, both buttons
\* are created in Tk's default state NORMAL, no process is tracked (line 10)
Init ==
    /\ \E file \in InitialFiles :
          /\ config_file = load_config(file)
          /\ ram_entry = configure_ram(load_config(file))
    /\ pc = "mainloop"
    /\ handler = "none"
    /\ server_process = None
    /\ start_button = NORMAL
    /\ stop_button = NORMAL
    /\ popen_args = <<>>
    /\ proc = [p \in Pids |-> "unborn"]
    /\ cause = [p \in Pids |-> "none"]
    /\ image = [p \in Pids |-> "none"]
    /\ stdin_buf = 0
    /\ stdin_pipe = 0
    /\ foreign_java = "alive"
    /\ elapsed = 0
    /\ ops = <<>>
    /\ msgs = <<>>
    /\ ref_at_begin = None
    /\ last_sync = "none"

(* ---------------- start_server ---------------- *)

\* lines 66-71: the handler is entered; load_config() reads the file
start_server_enter ==
    /\ pc = "mainloop"
    /\ pc' = "start_pull"
    /\ handler' = "start"
    /\ ops' = <<>>
    /\ msgs' = <<>>
    /\ ref_at_begin' = server_process
    /\ config_file' = load_config(config_file)
    /\ UNCHANGED << last_sync, server_process, gui, popen_args, os, elapsed >>

\* main(), line 163: the Start button runs start_server; Tk runs the command
\* of a button only while the button is not DISABLED
ClickStart ==
    /\ start_button = NORMAL
    /\ start_server_enter

\* start_server called as a function, whatever the state of the buttons
CallStart == start_server_enter

\* a git_pull that lets CalledProcessError leave start_server
StartPullFatal ==
    /\ pc = "start_pull"
    /\ \E ok \in BOOLEAN :
          /\ msgs' = Append(msgs, IF ok THEN "Git Sync" ELSE "Git Error")
          /\ pc' = IF ok THEN "start_validate" ELSE "mainloop"
    /\ ops' = Append(ops, "pull")
    /\ last_sync' = "pull"
    /\ UNCHANGED << handler, server_process, gui, config_file, popen_args,
                    os, elapsed, ref_at_begin >>

\* line 74 and git_pull, lines 45-51: check_call returns, or raises
\* CalledProcessError, which git_pull reports and swallows
StartPull ==
    /\ pc = "start_pull"
    /\ \E ok \in BOOLEAN :
          msgs' = Append(msgs, IF ok THEN "Git Sync" ELSE "Git Error")
    /\ ops' = Append(ops, "pull")
    /\ pc' = "start_validate"
    /\ last_sync' = "pull"
    /\ UNCHANGED << handler, server_process, gui, config_file, popen_args,
                    os, elapsed, ref_at_begin >>

\* a start_server that saves the value of the entry before it checks it
StartInvalidSaves ==
    /\ pc = "start_validate"
    /\ RamCheck(ram_entry) = "invalid"
    /\ config_file' = [config_file EXCEPT !.ram = ram_entry]
    /\ msgs' = Append(msgs, "Invalid RAM")
    /\ pc' = "mainloop"
    /\ UNCHANGED << last_sync, handler, server_process, gui, popen_args, os, elapsed,
                    ops, ref_at_begin >>

\* lines 77-82: the entry is read and rejected with the "Invalid RAM" box
StartInvalid ==
    /\ pc = "start_validate"
    /\ RamCheck(ram_entry) = "invalid"
    /\ msgs' = Append(msgs, "Invalid RAM")
    /\ pc' = "mainloop"
    /\ UNCHANGED << last_sync, handler, server_process, gui, config_file, popen_args, os, elapsed,
                    ops, ref_at_begin >>

\* line 80: int() raises ValueError; nothing in start_server catches it, Tk
\* prints the traceback of the callback and the main loop goes on
StartRaises ==
    /\ pc = "start_validate"
    /\ RamCheck(ram_entry) = "raises"
    /\ msgs' = Append(msgs, "Traceback")
    /\ pc' = "mainloop"
    /\ UNCHANGED << last_sync, handler, server_process, gui, config_file, popen_args, os, elapsed,
                    ops, ref_at_begin >>

\* a start_server that does not disable the Start button (line 97 lost)
StartValidLeavesStartEnabled ==
    /\ pc = "start_validate"
    /\ RamCheck(ram_entry) = "valid"
    /\ config_file' = [config_file EXCEPT !.ram = ram_entry]
    /\ stop_button' = NORMAL
    /\ pc' = "start_spawn"
    /\ UNCHANGED << last_sync, handler, server_process, start_button, ram_entry, popen_args, os,
                    elapsed, ops, msgs, ref_at_begin >>

\* lines 77-98: the value is valid: it is saved to the config file, then the
\* Start button is disabled and the Stop button enabled
StartValid ==
    /\ pc = "start_validate"
    /\ RamCheck(ram_entry) = "valid"
    /\ config_file' = [config_file EXCEPT !.ram = ram_entry]
    /\ start_button' = DISABLED
    /\ stop_button' = NORMAL
    /\ pc' = "start_spawn"
    /\ UNCHANGED << last_sync, handler, server_process, ram_entry, popen_args, os, elapsed, ops,
                    msgs, ref_at_begin >>

\* lines 101-103: Popen succeeds; the new Popen object replaces server_process
StartSpawnOk ==
    /\ pc = "start_spawn"
    /\ \E p \in Pids :
          /\ proc[p] = "unborn"
          /\ \A q \in Pids : q < p => proc[q] # "unborn"
          /\ proc' = [proc EXCEPT ![p] = "alive"]
          /\ image' = [image EXCEPT ![p] = ImageOf(StartCommand(config_file, ram_entry))]
          /\ server_process' = p
    /\ popen_args' = StartCommand(config_file, ram_entry)
    /\ ops' = Append(ops, "spawn")
    /\ msgs' = Append(msgs, "Server Started")
    /\ pc' = "mainloop"
    /\ stdin_buf' = 0
    /\ stdin_pipe' = 0
    /\ UNCHANGED << last_sync, handler, gui, config_file, cause, foreign_java, elapsed,
                    ref_at_begin >>

\* a failed Popen whose handler leaves the Start button disabled (line 107 lost)
StartSpawnFailStaysDisabled ==
    /\ pc = "start_spawn"
    /\ popen_args' = StartCommand(config_file, ram_entry)
    /\ ops' = Append(ops, "spawn")
    /\ msgs' = Append(msgs, "Server Error")
    /\ pc' = "mainloop"
    /\ UNCHANGED << last_sync, handler, server_process, gui, config_file, os, elapsed,
                    ref_at_begin >>

\* lines 101, 105-107: Popen raises; the error is shown and the Start button
\* enabled again
StartSpawnFail ==
    /\ pc = "start_spawn"
    /\ popen_args' = StartCommand(config_file, ram_entry)
    /\ ops' = Append(ops, "spawn")
    /\ msgs' = Append(msgs, "Server Error")
    /\ start_button' = NORMAL
    /\ pc' = "mainloop"
    /\ UNCHANGED << last_sync, handler, server_process, stop_button, ram_entry,
                    config_file, os, elapsed, ref_at_begin >>

(* ---------------- stop_server ---------------- *)

\* the git commands git_commit_push runs when the one named `failing` exits
\* nonzero (check_call raises CalledProcessError there; "none": all succeed)
GitCommands(failing) ==
    CASE failing = "add" -> << "add" >>
      [] failing = "commit" -> << "add", "commit" >>
      [] OTHER -> << "add", "commit", "push" >>

\* a stop_server whose git_commit_push stands outside the `if server_process:`
StopIdlePushes ==
    /\ pc = "mainloop"
    /\ stop_button = NORMAL
    /\ server_process = None
    /\ handler' = "stop"
    /\ \E failing \in {"none", "add", "commit", "push"} :
          /\ ops' = GitCommands(failing)
          /\ msgs' = << IF failing = "none" THEN "Git Sync" ELSE "Git Error" >>
    /\ ref_at_begin' = None
    /\ last_sync' = "push"
    /\ UNCHANGED << pc, server_process, gui, config_file, popen_args, os, elapsed >>

\* a stop_server without the `if server_process:` test: None.stdin raises
\* AttributeError, which `except Exception` reports
StopIdleUnguarded ==
    /\ pc = "mainloop"
    /\ stop_button = NORMAL
    /\ server_process = None
    /\ handler' = "stop"
    /\ ops' = <<>>
    /\ msgs' = << "Server Error" >>
    /\ ref_at_begin' = None
    /\ UNCHANGED << last_sync, pc, server_process, gui, config_file, popen_args, os, elapsed >>

\* lines 110-115 with server_process None: the body of the `if` is skipped
StopIdle ==
    /\ pc = "mainloop"
    /\ stop_button = NORMAL
    /\ server_process = None
    /\ handler' = "stop"
    /\ ops' = <<>>
    /\ msgs' = <<>>
    /\ ref_at_begin' = None
    /\ UNCHANGED << last_sync, pc, server_process, gui, config_file, popen_args, os,
                    elapsed >>

\* lines 115-116: stdin.write(b'stop\n') puts the command in the buffer of the
\* BufferedWriter (Popen's default bufsize=-1); the sleep begins
StopWrite ==
    /\ pc = "mainloop"
    /\ stop_button = NORMAL
    /\ server_process # None
    /\ stdin_buf < MaxBuffered
    /\ stdin_buf' = stdin_buf + 1
    /\ handler' = "stop"
    /\ ops' = << "write" >>
    /\ msgs' = <<>>
    /\ ref_at_begin' = server_process
    /\ elapsed' = 0
    /\ pc' = "stop_sleep"
    /\ UNCHANGED << last_sync, server_process, gui, config_file, popen_args, proc, cause,
                    image, stdin_pipe, foreign_java >>

\* a wait that ends as soon as the child has exited
sleep_done_polling(seconds) ==
    seconds >= GraceWindow \/ proc[server_process] # "alive"

\* line 117: time.sleep(15) returns after the whole time, whatever the child does
sleep_done(seconds) == seconds >= GraceWindow

\* line 117: a second of the sleep passes
StopSleep ==
    /\ pc = "stop_sleep"
    /\ ~sleep_done(elapsed)
    /\ elapsed' = elapsed + 1
    /\ UNCHANGED << last_sync, pc, handler, server_process, gui, config_file, popen_args,
                    os, ops, msgs, ref_at_begin >>

\* line 117: the sleep returns
StopWake ==
    /\ pc = "stop_sleep"
    /\ sleep_done(elapsed)
    /\ ops' = Append(ops, "sleep")
    /\ pc' = "stop_flush"
    /\ UNCHANGED << last_sync, handler, server_process, gui, config_file, popen_args,
                    os, elapsed, msgs, ref_at_begin >>

\* line 118: flush() writes the buffer to the pipe; the child can read it now
StopFlushOk ==
    /\ pc = "stop_flush"
    /\ proc[server_process] = "alive"
    /\ stdin_pipe' = stdin_pipe + stdin_buf
    /\ stdin_buf' = 0
    /\ ops' = Append(ops, "flush")
    /\ pc' = "stop_terminate"
    /\ UNCHANGED << last_sync, handler, server_process, gui, config_file, popen_args,
                    proc, cause, image, foreign_java, elapsed, msgs, ref_at_begin >>

\* lines 118, 134-135: the child has exited, so the pipe has no reader and
\* flush() raises (BrokenPipeError / OSError); `except Exception` shows the
\* error and stop_server returns
StopFlushFail ==
    /\ pc = "stop_flush"
    /\ proc[server_process] # "alive"
    /\ ops' = Append(ops, "flush")
    /\ msgs' = Append(msgs, "Server Error")
    /\ pc' = "mainloop"
    /\ UNCHANGED << last_sync, handler, server_process, gui, config_file, popen_args,
                    os, elapsed, ref_at_begin >>

\* lines 121-122: terminate() (TerminateProcess on Windows: a live process
\* ends, an exited one is left as it is), then the reference is cleared
StopTerminate ==
    /\ pc = "stop_terminate"
    /\ IF proc[server_process] = "alive"
       THEN /\ proc' = [proc EXCEPT ![server_process] = "dead"]
            /\ cause' = [cause EXCEPT ![server_process] = "terminate"]
       ELSE UNCHANGED << proc, cause >>
    /\ server_process' = None
    /\ ops' = Append(ops, "terminate")
    /\ pc' = "stop_kill"
    /\ UNCHANGED << last_sync, handler, gui, config_file, popen_args, image, stdin_buf,
                    stdin_pipe, foreign_java, elapsed, msgs, ref_at_begin >>

\* a Stop that goes from terminate to the push without the TASKKILL call
StopKillSkipped ==
    /\ pc = "stop_kill"
    /\ msgs' = Append(msgs, "Server Stopped")
    /\ pc' = "stop_push"
    /\ UNCHANGED << last_sync, handler, server_process, gui, config_file, popen_args, os, elapsed,
                    ops, ref_at_begin >>

\* lines 124-125: TASKKILL /F /IM java.exe ends every process whose image is
\* java.exe; subprocess.call does not raise on its exit code
StopKill ==
    /\ pc = "stop_kill"
    /\ proc' = [p \in Pids |->
                  IF proc[p] = "alive" /\ image[p] = "java.exe" THEN "dead" ELSE proc[p]]
    /\ cause' = [p \in Pids |->
                  IF proc[p] = "alive" /\ image[p] = "java.exe" THEN "taskkill" ELSE cause[p]]
    /\ foreign_java' = "killed"
    /\ ops' = Append(ops, "kill")
    /\ msgs' = Append(msgs, "Server Stopped")
    /\ pc' = "stop_push"
    /\ UNCHANGED << last_sync, handler, server_process, gui, config_file, popen_args,
                    image, stdin_buf, stdin_pipe, elapsed, ref_at_begin >>

\* lines 128-132 and git_commit_push, lines 54-63: add, commit, push; a
\* failure is reported and swallowed; the Start button is enabled again
StopPush ==
    /\ pc = "stop_push"
    /\ \E failing \in {"none", "add", "commit", "push"} :
          /\ ops' = ops \o GitCommands(failing)
          /\ msgs' = Append(msgs, IF failing = "none" THEN "Git Sync" ELSE "Git Error")
    /\ start_button' = NORMAL
    /\ pc' = "mainloop"
    /\ last_sync' = "push"
    /\ UNCHANGED << handler, server_process, stop_button, ram_entry,
                    config_file, popen_args, os, elapsed, ref_at_begin >>

(* ---------------- the environment ---------------- *)

\* the operator types into the RAM entry (the window takes no input while a
\* handler runs)
EditRam ==
    /\ pc = "mainloop"
    /\ \E text \in RamInputs : text # ram_entry /\ ram_entry' = text
    /\ UNCHANGED << last_sync, pc, handler, server_process, start_button, stop_button,
                    config_file, popen_args, os, elapsed, ops, msgs, ref_at_begin >>

\* a child exits on its own (a crash, an in-game stop, a rejected EULA)
ChildExit ==
    /\ \E p \in Pids :
          /\ proc[p] = "alive"
          /\ proc' = [proc EXCEPT ![p] = "dead"]
          /\ cause' = [cause EXCEPT ![p] = "self"]
    /\ UNCHANGED << last_sync, pc, handler, server_process, gui, config_file, popen_args,
                    image, stdin_buf, stdin_pipe, foreign_java, elapsed, ops, msgs,
                    ref_at_begin >>

\* the tracked child reads "stop\n" from its stdin pipe, saves and exits
ChildReadsStop ==
    /\ server_process # None
    /\ proc[server_process] = "alive"
    /\ stdin_pipe > 0
    /\ proc' = [proc EXCEPT ![server_process] = "dead"]
    /\ cause' = [cause EXCEPT ![server_process] = "stop command"]
    /\ UNCHANGED << last_sync, pc, handler, server_process, gui, config_file, popen_args,
                    image, stdin_buf, stdin_pipe, foreign_java, elapsed, ops, msgs,
                    ref_at_begin >>

(* ---------------- specifications ---------------- *)

Handlers ==
    \/ StartPull \/ StartInvalid \/ StartRaises \/ StartValid
    \/ StartSpawnOk \/ StartSpawnFail
    \/ StopIdle \/ StopWrite \/ StopSleep \/ StopWake
    \/ StopFlushOk \/ StopFlushFail \/ StopTerminate \/ StopKill \/ StopPush

Environment == EditRam \/ ChildExit \/ ChildReadsStop

\* the program as main() wires it: start_server runs from the Start button
Next == ClickStart \/ Handlers \/ Environment

Spec == Init /\ [][Next]_vars

\* the program launched where no server_config.json exists yet
InitFresh == Init /\ config_file = load_config(Missing)

SpecFresh == InitFresh /\ [][Next]_vars

\* start_server and stop_server as operations a caller invokes in any state
NextCall == CallStart \/ Handlers \/ Environment

SpecCall == Init /\ [][NextCall]_vars

(* ---------------- vocabulary of the properties ---------------- *)

Has(seq, x) == \E i \in 1..Len(seq) : seq[i] = x
Count(seq, x) == Cardinality({i \in 1..Len(seq) : seq[i] = x})
Before(seq, x, y) ==
    \A j \in 1..Len(seq) : seq[j] = y => \E i \in 1..(j - 1) : seq[i] = x
Last(seq) == seq[Len(seq)]

\* the supervisor is Idle: no handler runs, no process is tracked and the
\* Start button takes a click
Idle == pc = "mainloop" /\ server_process = None /\ start_button = NORMAL

\* a Start has returned / a Stop has returned
StartReturned == handler = "start" /\ pc = "mainloop"
StopReturned == handler = "stop" /\ pc = "mainloop"

\* a text that is not the decimal notation of an integer greater than zero
NotPositiveNumber(text) ==
    \/ Len(text) = 0
    \/ \E i \in 1..Len(text) : text[i] \notin DecimalChars
    \/ \A i \in 1..Len(text) : text[i] = "0"

(* ---------------- C1 ---------------- *)

\* C1: a Start invoked while a process started by an earlier Start is still
\* tracked is rejected: it spawns no process and server_process still
\* designates the first process.
C1_SecondStartRejected ==
    (handler = "start" /\ ref_at_begin # None)
        => (~Has(ops, "spawn") /\ server_process = ref_at_begin)

(* ---------------- C2 ---------------- *)

\* C2: when a Stop of a tracked process has returned the supervisor is Idle,
\* whatever the pull of the Start and the add/commit/push of the Stop did.
C2_StopEndsIdle ==
    (StopReturned /\ ref_at_begin # None) => Idle

(* ---------------- C3 ---------------- *)

\* a step in which stop_server is entered from the main loop
StopEntered ==
    /\ pc = "mainloop"
    /\ handler' = "stop"
    /\ << handler, ops, msgs, ref_at_begin >> # << handler', ops', msgs', ref_at_begin' >>

ValidationLeft == pc = "start_validate" /\ pc' # pc

\* C4: for every text that is not a number greater than zero, a Start from
\* Idle shows "Invalid RAM" and returns: nothing is spawned, no process is
\* tracked and the Start button still takes a click.
C4_InvalidRamRejected ==
    [][ (ValidationLeft /\ NotPositiveNumber(ram_entry) /\ ref_at_begin = None)
          => /\ msgs' = Append(msgs, "Invalid RAM")
             /\ pc' = "mainloop"
             /\ server_process' = None
             /\ start_button' = NORMAL
             /\ UNCHANGED << proc, popen_args >> ]_vars

(* ---------------- C5 ---------------- *)

\* C5: in every Stop of a tracked process the "stop\n" command is in the
\* pipe the child reads from when the grace wait begins and while it lasts.
C5_StopCommandDeliveredBeforeWait ==
    pc = "stop_sleep" => stdin_pipe > 0

(* ---------------- C6 ---------------- *)

\* C6: the whole grace window passes between the write of the stop command
\* and terminate: the sleep never returns before GraceWindow seconds, whether
\* or not the child has exited meanwhile, and terminate is only issued after
\* the write and the completed sleep.
C6_FullGraceWindowBeforeTerminate ==
    /\ pc \in {"stop_flush", "stop_terminate", "stop_kill", "stop_push"}
          => (elapsed = GraceWindow /\ Has(ops, "sleep"))
    /\ (handler = "stop" /\ Has(ops, "terminate"))
          => /\ elapsed = GraceWindow
             /\ Before(ops, "write", "sleep")
             /\ Before(ops, "sleep", "terminate")

\* terminate has been issued in a Stop whose child had exited on its own
\* account before terminate reached it
C6_Witness ==
    /\ handler = "stop"
    /\ Has(ops, "terminate")
    /\ elapsed = GraceWindow
    /\ cause[ref_at_begin] = "stop command"

(* ---------------- C7 ---------------- *)

\* C7: every Stop of a tracked process issues, after the grace window,
\* terminate and then the forced kill, and the process is not alive when Stop
\* returns.
C7_TerminateThenKill ==
    (StopReturned /\ ref_at_begin # None)
        => /\ Has(ops, "terminate")
           /\ Has(ops, "kill")
           /\ Before(ops, "sleep", "terminate")
           /\ Before(ops, "terminate", "kill")
           /\ proc[ref_at_begin] # "alive"

(* ---------------- C8 ---------------- *)

\* C8: when the write or the flush of the stop command fails during a Stop of
\* a tracked process, Stop still issues terminate and the kill, clears the
\* reference and runs the push hook.
C8_FailedWriteStillTerminates ==
    (StopReturned /\ ref_at_begin # None /\ Has(ops, "flush") /\ stdin_buf > 0)
        => /\ Has(ops, "terminate")
           /\ Has(ops, "kill")
           /\ server_process = None
           /\ Has(ops, "add")

(* ---------------- C9 ---------------- *)

\* the Popen of the last Start raised
SpawnFailed == handler = "start" /\ Has(ops, "spawn") /\ Last(msgs) = "Server Error"

\* C9: when Popen fails in a Start from Idle, start_server shows the error
\* and returns with the supervisor Idle (nothing tracked, Start button
\* enabled), having tried to spawn exactly once.
C9_SpawnFailureReturnsToIdle ==
    (SpawnFailed /\ ref_at_begin = None)
        => /\ Idle
           /\ Count(ops, "spawn") = 1
           /\ ~Has(msgs, "Server Started")

\* a Start whose Popen failed has returned, after an earlier process
C9_Witness ==
    /\ SpawnFailed
    /\ ref_at_begin = None
    /\ pc = "mainloop"
    /\ \E p \in Pids : proc[p] = "dead"

(* ---------------- C10 ---------------- *)

\* a step in which start_server calls Popen
PopenCalled == pc = "start_spawn" /\ pc' # pc

\* C10: the command given to Popen is the start_command of the settings file
\* when it holds one, and otherwise the six tokens java, -Xmx<N>M, -Xms<N>M,
\* -jar, server.jar, nogui, N being the text in the RAM entry of this Start,
\* which is a number greater than zero.
C10_LaunchCommand ==
    [][ PopenCalled
          => /\ ~NotPositiveNumber(ram_entry)
             /\ config_file.ram = ram_entry
             /\ popen_args' =
                  IF config_file.start_command # <<>> THEN config_file.start_command
                  ELSE << <<"j", "a", "v", "a">>,
                          <<"-", "X", "m", "x">> \o ram_entry \o <<"M">>,
                          <<"-", "X", "m", "s">> \o ram_entry \o <<"M">>,
                          <<"-", "j", "a", "r">>,
                          <<"s", "e", "r", "v", "e", "r", ".", "j", "a", "r">>,
                          <<"n", "o", "g", "u", "i">> >> ]_vars

\* a process has been spawned with the default command for a RAM value typed
\* with a leading zero
C10_Witness ==
    /\ StartReturned
    /\ Has(ops, "spawn")
    /\ Len(popen_args) = 6
    /\ popen_args[2] = <<"-", "X", "m", "x", "0", "1", "M">>
    /\ popen_args[3] = <<"-", "X", "m", "s", "0", "1", "M">>

(* ---------------- C11 ---------------- *)

\* the state of the supervisor as the program holds it: the handler that
\* runs, and between handlers the Start button (disabled while a server is
\* taken to run)
SupervisorState ==
    IF pc \in {"start_pull", "start_validate", "start_spawn"} THEN "Starting"
    ELSE IF pc # "mainloop" THEN "Stopping"
    ELSE IF start_button = DISABLED THEN "Running"
    ELSE "Idle"

\* C11: in every state, the states inside Start and Stop included, a process
\* is tracked exactly when the supervisor is Starting, Running or Stopping.
C11_ReferenceIffNotIdle ==
    (server_process # None) <=> (SupervisorState \in {"Starting", "Running", "Stopping"})

(* ---------------- C12 ---------------- *)

GitOps == {"pull", "add", "commit", "push"}

\* C12: the sync hooks bracket the life of the child: in a Start the pull comes
\* before the spawn, in a Stop add/commit/push come after terminate and after
\* the kill, and no process this program launched is alive when a hook is
\* about to run.
C12_SyncBracketsProcess ==
    /\ (handler = "start" /\ Has(ops, "spawn")) => Before(ops, "pull", "spawn")
    /\ handler = "start" => \A g \in GitOps \ {"pull"} : ~Has(ops, g)
    /\ handler = "stop"
          => /\ ~Has(ops, "pull")
             /\ \A g \in GitOps \ {"pull"} :
                   Before(ops, "terminate", g) /\ Before(ops, "kill", g)
    /\ pc \in {"start_pull", "stop_push"} => \A p \in Pids : proc[p] # "alive"

\* a Stop has pushed after terminate ended the child, which a Start had
\* spawned after its pull
C12_Witness ==
    /\ StopReturned
    /\ Has(ops, "push")
    /\ cause[ref_at_begin] = "terminate"

(* ---------------- C13 ---------------- *)

Trapped ==
    /\ server_process # None
    /\ proc[server_process] = "dead"
    /\ start_button = DISABLED
    /\ pc \in {"mainloop", "stop_sleep", "stop_flush"}

\* no step of the program leaves Trapped: Start takes no click, and every
\* Stop ends in the failing flush with the reference and the button as they
\* were. Idle is therefore out of reach from a Trapped state.
TrappedForEver == [][Trapped => Trapped']_vars

\* C14: from every reachable state some sequence of Start and Stop calls
\* leads back to Idle. Since no step leaves Trapped (TrappedForEver) and no
\* Trapped state is Idle, this says that no reachable state is Trapped.
C14_IdleAlwaysReachable == ~Trapped

(* ---------------- C15 ---------------- *)

\* C15: when the program began without a settings file, the ram value in the
\* file is at every moment the decimal notation of an integer greater than
\* zero: the default, or a value that passed the check of a Start.
C15_PersistedRamPositive ==
    /\ config_file.exists
    /\ ~NotPositiveNumber(config_file.ram)
    /\ DecimalNumber(config_file.ram) > 0

\* a Start has replaced the default by a value typed with a leading zero
C15_Witness ==
    /\ StartReturned
    /\ config_file.ram = <<"0", "1">>

(* ---------------- C16 ---------------- *)

\* a step of a Start before the RAM value has been accepted: the entry into
\* start_server, the pull, and the rejection of a text that is not a number
\* greater than zero
RejectedStartStep ==
    \/ (pc = "mainloop" /\ pc' = "start_pull")
    \/ (pc = "start_pull" /\ pc' = "start_validate")
    \/ (ValidationLeft /\ NotPositiveNumber(ram_entry))

\* C16: a Start that is rejected for its memory value changes nothing: none
\* of its steps touches the settings file (ram and start_command), the
\* tracked reference, or the state of the Start and Stop buttons, and it
\* returns to the main loop.
C16_RejectedStartMutatesNothing ==
    [][ /\ RejectedStartStep
            => UNCHANGED << config_file, server_process, start_button, stop_button >>
        /\ (ValidationLeft /\ NotPositiveNumber(ram_entry)) => pc' = "mainloop" ]_vars

\* a Start has been rejected with the settings file holding another value
\* than the text that was rejected
C16_Witness ==
    /\ StartReturned
    /\ Last(msgs) = "Invalid RAM"
    /\ NotPositiveNumber(ram_entry)
    /\ config_file.ram # ram_entry
    /\ start_button = NORMAL

(* ---------------- C17 ---------------- *)

\* C17: a Stop that has begun on a tracked process is never left part-way:
\* from the grace wait up to the kill every step of the handler leads to the
\* next step of the Stop, never back to the main loop; the wait, terminate and
\* the kill come in that order; and the Start button takes no click meanwhile.
C17_StopRunsToCompletion ==
    [][ /\ (pc \in {"stop_sleep", "stop_flush", "stop_terminate", "stop_kill"} /\ pc' # pc)
            => /\ pc' \in {"stop_flush", "stop_terminate", "stop_kill", "stop_push"}
               /\ start_button' = DISABLED
        /\ (pc = "stop_kill" /\ pc' # pc)
            => /\ Before(ops', "sleep", "terminate")
               /\ Before(ops', "terminate", "kill")
               /\ Has(ops', "kill") ]_vars

(* ---------------- C18 ---------------- *)

\* C18: the forced kill of a Stop reaches the tracked process only: a
\* java.exe this program did not launch is left running.
C18_KillSparesOtherProcesses == foreign_java = "alive"

(* ---------------- C19 ---------------- *)

\* the processes this program launched that are alive
AliveChildren == {p \in Pids : proc[p] = "alive"}

\* C19: between handlers, an enabled Start button means that no process is
\* tracked; so, Start running only from its enabled button, a Start never
\* begins with a process tracked (it overwrites no reference), and at most one
\* launched process is alive at any time, the tracked one.
C19_EnabledStartMeansNoProcess ==
    /\ (pc = "mainloop" /\ start_button = NORMAL) => server_process = None
    /\ handler = "start" => ref_at_begin = None
    /\ pc \in {"start_pull", "start_validate", "start_spawn"} => server_process = None
    /\ Cardinality(AliveChildren) <= 1
    /\ \A p \in AliveChildren : server_process = p

\* a second server runs, tracked, after the first was stopped
C19_Witness ==
    /\ pc = "mainloop"
    /\ server_process # None
    /\ proc[server_process] = "alive"
    /\ \E p \in Pids : proc[p] = "dead" /\ cause[p] = "terminate"

(* ---------------- C20 ---------------- *)

\* the step on which git_commit_push runs
PushStep == Len(ops') > Len(ops) /\ Last(ops') \in {"add", "commit", "push"}

\* C20: git_commit_push is run only by a Stop that began with a reference to
\* a child that a Start had spawned, and the sync hook that ran last before it
\* is a pull, so that two pushes have a pull between them; whenever add,
\* commit or push is among the operations of a handler, that handler is such
\* a Stop: never a Start (rejected, failed or launched), never a Stop on Idle
C20_PushOnlyAfterSpawnedStart ==
    [][ /\ PushStep =>
              /\ handler = "stop"
              /\ ref_at_begin # None
              /\ proc[ref_at_begin] # "unborn"
              /\ last_sync = "pull"
              /\ last_sync' = "push"
        /\ (\E g \in {"add", "commit", "push"} : Has(ops', g)) =>
              /\ handler' = "stop"
              /\ ref_at_begin' # None
              /\ Has(ops', "terminate") ]_vars

\* a second Stop has pushed, after the second Start pulled and spawned
C20_Witness ==
    /\ StopReturned
    /\ Has(ops, "add")
    /\ last_sync = "push"
    /\ \A p \in Pids : proc[p] = "dead"
====
